---- MODULE Spec2Model ----
(***************************************************************************)
(* Model of backend/checkCitation/handler.py: the citation-format          *)
(* validator (validate_citation, validate_apa, validate_mla) and its       *)
(* request boundary (lambda_handler).                                      *)
(*                                                                         *)
(* Python values are tagged records: a str is [t |-> "str", v |-> chars]   *)
(* with chars a sequence of one-character strings, None is                 *)
(* [t |-> "NoneType"], an int is [t |-> "int", v |-> n], a list is         *)
(* [t |-> "list"], and a request dict is [t |-> "dict", d |-> pairs] with  *)
(* pairs the set of its <<key, value>> items.  The result dicts the        *)
(* validator builds are TLA+ records (the set of keys is the record's      *)
(* DOMAIN) and the literal strings of the program are TLA+ strings.        *)
(* A call either returns a value or raises an exception.                   *)
(***************************************************************************)
EXTENDS Integers, Sequences, FiniteSets, TLC

VARIABLES fn, args, ret, pc

vars == <<fn, args, ret, pc>>

(***************************************************************************)
(* Bounds of the inputs.                                                   *)
(***************************************************************************)
\* longest citation enumerated exhaustively over Alphabet (direct calls)
MaxLen == 4
\* longest citation enumerated exhaustively in a request
MaxReqLen == 3
\* number of (year-like token, filler) pairs in a composed APA citation
MaxTokens == 2

(***************************************************************************)
(* Python values and call outcomes.                                        *)
(***************************************************************************)
PyStr(chars) == [t |-> "str", v |-> chars]

PyNone == [t |-> "NoneType"]

PyInt(n) == [t |-> "int", v |-> n]

PyList == [t |-> "list"]

PyDict(f) == [t |-> "dict", d |-> f]

Return(v) == [kind |-> "return", value |-> v]

Raise(exc, msg) == [kind |-> "raise", exc |-> exc, msg |-> msg]

NoResult == [kind |-> "pending"]

(***************************************************************************)
(* re.match(pattern, string): the two patterns of the program are          *)
(* sequences of atoms; an atom matches between lo and hi characters of a   *)
(* class (hi = -1: no upper limit).  Both patterns start with ^ and        *)
(* re.match anchors at the start of the string; neither ends with $, so a  *)
(* match need not reach the end.  No flags are passed: "." matches every   *)
(* character except the newline, \d a decimal digit.                       *)
(***************************************************************************)
Digits == {"0", "1", "2", "3", "4", "5", "6", "7", "8", "9"}

Lit(c) == [k |-> "lit", c |-> c, lo |-> 1, hi |-> 1]

PlusNot(c) == [k |-> "not", c |-> c, lo |-> 1, hi |-> -1]

RepDigit(n) == [k |-> "digit", c |-> "", lo |-> n, hi |-> n]

PlusDot == [k |-> "dot", c |-> "", lo |-> 1, hi |-> -1]

ClassMatches(atom, ch) ==
    CASE atom.k = "lit" -> ch = atom.c
      [] atom.k = "not" -> ch # atom.c
      [] atom.k = "digit" -> ch \in Digits
      [] atom.k = "dot" -> ch # "\n"

RECURSIVE MatchHere(_, _, _, _)
MatchHere(pat, k, s, pos) ==
    IF k > Len(pat) THEN TRUE
    ELSE LET atom == pat[k]
             rest == Len(s) - pos + 1
             most == IF atom.hi = -1 \/ atom.hi > rest THEN rest ELSE atom.hi
         IN  \E n \in atom.lo .. most :
                /\ \A j \in pos .. (pos + n - 1) : ClassMatches(atom, s[j])
                /\ MatchHere(pat, k + 1, s, pos + n)

\* TRUE stands for a Match object, FALSE for None; the TypeError text is
\* CPython's (3.11 and later) for a subject that is not a str or bytes
re_match(pat, string) ==
    IF string.t # "str"
    THEN Raise("TypeError",
               "expected string or bytes-like object, got '" \o string.t \o "'")
    ELSE Return(MatchHere(pat, 1, string.v, 1))

\* faulty variant: r'^.+\(\d{4}\)\..+', a leading segment that may hold "("
apa_pattern_any_prefix ==
    <<[k |-> "dot", c |-> "", lo |-> 1, hi |-> -1],
      Lit("("), RepDigit(4), Lit(")"), Lit("."), PlusDot>>

\* r'^[^(]+\(\d{4}\)\..+'
apa_pattern == <<PlusNot("("), Lit("("), RepDigit(4), Lit(")"), Lit("."), PlusDot>>

\* r'^[^.]+\..+'
mla_pattern == <<PlusNot("."), Lit("."), PlusDot>>

(***************************************************************************)
(* The validator.                                                          *)
(***************************************************************************)
\* faulty variant: 'hasRequiredFields': True
validate_apa_fields_true(citation) ==
    LET m == re_match(apa_pattern, citation)
    IN  IF m.kind = "raise" THEN m
        ELSE Return([formatCorrect |-> m.value,
                     hasRequiredFields |-> TRUE,
                     issues |-> IF m.value THEN <<>>
                                ELSE <<"Does not match APA format">>])

validate_apa(citation) ==
    LET m == re_match(apa_pattern, citation)
    IN  IF m.kind = "raise" THEN m
        ELSE Return([formatCorrect |-> m.value,
                     hasRequiredFields |-> m.value,
                     issues |-> IF m.value THEN <<>>
                                ELSE <<"Does not match APA format">>])

\* faulty variant: 'issues': [] if not match else [...]
validate_mla_inverted_issues(citation) ==
    LET m == re_match(mla_pattern, citation)
    IN  IF m.kind = "raise" THEN m
        ELSE Return([formatCorrect |-> m.value,
                     hasRequiredFields |-> m.value,
                     issues |-> IF ~m.value THEN <<>>
                                ELSE <<"Does not match MLA format">>])

validate_mla(citation) ==
    LET m == re_match(mla_pattern, citation)
    IN  IF m.kind = "raise" THEN m
        ELSE Return([formatCorrect |-> m.value,
                     hasRequiredFields |-> m.value,
                     issues |-> IF m.value THEN <<>>
                                ELSE <<"Does not match MLA format">>])

s_apa == <<"a", "p", "a">>

s_mla == <<"m", "l", "a">>

\* faulty variant: the else branch raises ValueError('Unsupported format')
validate_citation_raising(citation, format_type) ==
    IF format_type = PyStr(s_apa) THEN validate_apa(citation)
    ELSE IF format_type = PyStr(s_mla) THEN validate_mla(citation)
    ELSE Raise("ValueError", "Unsupported format")

validate_citation(citation, format_type) ==
    IF format_type = PyStr(s_apa) THEN validate_apa(citation)
    ELSE IF format_type = PyStr(s_mla) THEN validate_mla(citation)
    ELSE Return([formatCorrect |-> FALSE, issues |-> <<"Unsupported format">>])

(***************************************************************************)
(* The request boundary.                                                   *)
(***************************************************************************)
\* AttributeError of a value that lacks the attribute
AttributeError(val, attr) ==
    Raise("AttributeError",
          "'" \o val.t \o "' object has no attribute '" \o attr \o "'")

\* faulty variant: event.get(key), the default dropped
dict_get_no_default(event, key, default) ==
    IF event.t # "dict" THEN AttributeError(event, "get")
    ELSE IF \E p \in event.d : p[1] = key
         THEN Return((CHOOSE p \in event.d : p[1] = key)[2])
         ELSE Return(PyNone)

\* dict.get(key, default); a dict is a set of <<key, value>> pairs
dict_get(event, key, default) ==
    IF event.t # "dict" THEN AttributeError(event, "get")
    ELSE IF \E p \in event.d : p[1] = key
         THEN Return((CHOOSE p \in event.d : p[1] = key)[2])
         ELSE Return(default)

UpperCase == <<"A", "B", "C", "D", "E", "F", "G", "H", "I", "J", "K", "L", "M",
               "N", "O", "P", "Q", "R", "S", "T", "U", "V", "W", "X", "Y", "Z">>

LowerCase == <<"a", "b", "c", "d", "e", "f", "g", "h", "i", "j", "k", "l", "m",
               "n", "o", "p", "q", "r", "s", "t", "u", "v", "w", "x", "y", "z">>

lower_char(c) ==
    IF \E i \in DOMAIN UpperCase : UpperCase[i] = c
    THEN LowerCase[CHOOSE i \in DOMAIN UpperCase : UpperCase[i] = c]
    ELSE c

\* faulty variant: the style identifier used as given, .lower() dropped
str_lower_unchanged(val) == Return(val)

\* str.lower()
str_lower(val) ==
    IF val.t # "str" THEN AttributeError(val, "lower")
    ELSE Return(PyStr([i \in 1 .. Len(val.v) |-> lower_char(val.v[i])]))

(***************************************************************************)
(* json.dumps of the dicts the handler serializes: keys in insertion       *)
(* order, ", " between items and ": " after a key, booleans as true/false, *)
(* strings in double quotes (no string the handler serializes holds a      *)
(* character that JSON escapes).                                           *)
(***************************************************************************)
json_str(s) == "\"" \o s \o "\""

json_bool(b) == IF b THEN "true" ELSE "false"

RECURSIVE json_items(_, _)
json_items(seq, i) ==
    IF i > Len(seq) THEN ""
    ELSE (IF i > 1 THEN ", " ELSE "") \o json_str(seq[i]) \o json_items(seq, i + 1)

json_list(seq) == "[" \o json_items(seq, 1) \o "]"

\* the keys of the serialized dicts, in the order the code inserts them
KeyOrder == <<"formatCorrect", "hasRequiredFields", "issues", "error">>

json_value(obj, key) ==
    CASE key \in {"formatCorrect", "hasRequiredFields"} -> json_bool(obj[key])
      [] key = "issues" -> json_list(obj[key])
      [] key = "error" -> json_str(obj[key])

RECURSIVE json_members(_, _, _)
json_members(obj, i, first) ==
    IF i > Len(KeyOrder) THEN ""
    ELSE IF KeyOrder[i] \in DOMAIN obj
         THEN (IF first THEN "" ELSE ", ")
              \o json_str(KeyOrder[i]) \o ": " \o json_value(obj, KeyOrder[i])
              \o json_members(obj, i + 1, FALSE)
         ELSE json_members(obj, i + 1, first)

json_dumps(obj) == "{" \o json_members(obj, 1, TRUE) \o "}"

\* faulty variant: except AttributeError
IsAttributeError(exc) == exc = "AttributeError"

\* the exception classes that "except Exception" catches
IsException(exc) == exc \in {"AttributeError", "TypeError", "ValueError"}

\* the body of the try block
try_body(event) ==
    LET citation == dict_get(event, "citation", PyStr(<<>>))
    IN  IF citation.kind = "raise" THEN citation
        ELSE
        LET format == dict_get(event, "format", PyStr(s_apa))
            format_type == str_lower(format.value)
        IN  IF format_type.kind = "raise" THEN format_type
            ELSE
            LET result == validate_citation(citation.value, format_type.value)
            IN  IF result.kind = "raise" THEN result
                ELSE Return([statusCode |-> 200, body |-> json_dumps(result.value)])

lambda_handler(event) ==
    LET r == try_body(event)
    IN  IF r.kind = "raise" /\ IsException(r.exc)
        THEN Return([statusCode |-> 500, body |-> json_dumps([error |-> r.msg])])
        ELSE r

(***************************************************************************)
(* Inputs.                                                                 *)
(***************************************************************************)
Alphabet == {"a", " ", "(", ")", ".", "2", "\n"}

RECURSIVE Strs(_)
Strs(n) ==
    IF n = 0 THEN {<<>>}
    ELSE LET shorter == Strs(n - 1)
         IN  shorter \cup {Append(s, c) : s \in {x \in shorter : Len(x) = n - 1},
                                          c \in Alphabet}

Fillers == {<<>>, <<"a">>, <<".">>, <<"\n">>, <<"(">>}

YearTokens ==
    { <<>>,
      <<"(", "2", "0", "2", "0", ")", ".">>,
      <<"(", "2", "0", "2", "0", ")">>,
      <<"(", "1", "2", "3", "4", ")", ".">>,
      <<"(", "1", "2", ")", ".">>,
      <<"(", "e", "d", ")">>,
      <<"(", "1", "2", "3", "4", "5", ")", ".">> }

\* fillers alternating with n year-like tokens
RECURSIVE Composed(_)
Composed(n) ==
    IF n = 0 THEN Fillers
    ELSE {c \o t \o f : c \in Composed(n - 1), t \in YearTokens, f \in Fillers}

ApaCitations == Strs(MaxLen) \cup Composed(MaxTokens)

\* longer citations for the calls that also vary the style
Examples ==
    { <<"a", "(", "2", "0", "2", "0", ")", ".", "a">>,
      <<"a", "(", "2", "0", "2", "0", ")", ".", "\n">>,
      <<"(", "2", "0", "2", "0", ")", ".", "a">>,
      <<"a", " ", "2", "0", "2", "0", ".", " ", "a">>,
      <<"a", "(", "e", "d", ")", "a", "(", "2", "0", "2", "0", ")", ".", "a">>,
      <<"S", "m", "i", "t", "h", " ", "J", "o", "h", "n">> }

upper_char(c) ==
    IF \E i \in DOMAIN LowerCase : LowerCase[i] = c
    THEN UpperCase[CHOOSE i \in DOMAIN LowerCase : LowerCase[i] = c]
    ELSE c

\* every upper/lower-case spelling of a lower-case word
CaseVariants(word) ==
    { [i \in DOMAIN word |-> IF up[i] THEN upper_char(word[i]) ELSE word[i]] :
        up \in [DOMAIN word -> BOOLEAN] }

FormatStrings ==
    CaseVariants(s_apa) \cup CaseVariants(s_mla)
    \cup { <<"c", "h", "i", "c", "a", "g", "o">>,
           <<"C", "h", "i", "c", "a", "g", "o">>,
           <<"a", "p", "a", " ">>,
           <<>> }

\* the style identifiers lambda_handler passes on: lower-cased strings
FormatTypes == {str_lower(PyStr(f)).value : f \in FormatStrings}

CitationValues ==
    {PyStr(c) : c \in Strs(MaxReqLen) \cup Examples} \cup {PyNone, PyInt(5)}

FormatValues == {PyStr(f) : f \in FormatStrings} \cup {PyNone, PyInt(1)}

Events ==
    {PyDict({<<"citation", c>>, <<"format", f>>}) :
        c \in CitationValues, f \in FormatValues}
    \cup {PyDict({<<"citation", c>>}) : c \in CitationValues}
    \cup {PyDict({<<"format", f>>}) : f \in FormatValues}
    \cup {PyDict({}), PyNone, PyList, PyInt(0), PyStr(<<>>)}

(***************************************************************************)
(* Calls.  A behaviour is one call: the arguments are chosen initially and *)
(* the call's action computes what it returns or raises.                   *)
(***************************************************************************)
Init ==
    /\ fn = "lambda_handler"
    /\ args \in {<<e>> : e \in Events}
    /\ ret = NoResult
    /\ pc = "call"

InitCitation ==
    /\ fn = "validate_citation"
    /\ args \in {<<PyStr(c), f>> : c \in Strs(MaxLen) \cup Examples, f \in FormatTypes}
    /\ ret = NoResult
    /\ pc = "call"

InitApa ==
    /\ fn = "validate_apa"
    /\ args \in {<<PyStr(c)>> : c \in ApaCitations}
    /\ ret = NoResult
    /\ pc = "call"

InitMla ==
    /\ fn = "validate_mla"
    /\ args \in {<<PyStr(c)>> : c \in Strs(MaxLen) \cup Examples}
    /\ ret = NoResult
    /\ pc = "call"

CallLambdaHandler ==
    /\ pc = "call"
    /\ fn = "lambda_handler"
    /\ ret' = lambda_handler(args[1])
    /\ pc' = "done"
    /\ UNCHANGED <<fn, args>>

CallValidateCitation ==
    /\ pc = "call"
    /\ fn = "validate_citation"
    /\ ret' = validate_citation(args[1], args[2])
    /\ pc' = "done"
    /\ UNCHANGED <<fn, args>>

CallValidateApa ==
    /\ pc = "call"
    /\ fn = "validate_apa"
    /\ ret' = validate_apa(args[1])
    /\ pc' = "done"
    /\ UNCHANGED <<fn, args>>

CallValidateMla ==
    /\ pc = "call"
    /\ fn = "validate_mla"
    /\ ret' = validate_mla(args[1])
    /\ pc' = "done"
    /\ UNCHANGED <<fn, args>>

Next == CallLambdaHandler

NextCitation == CallValidateCitation

NextApa == CallValidateApa

NextMla == CallValidateMla

\* requests handled by lambda_handler
Spec == Init /\ [][Next]_vars

\* direct calls of validate_citation
SpecCitation == InitCitation /\ [][NextCitation]_vars

\* direct calls of validate_apa
SpecApa == InitApa /\ [][NextApa]_vars

\* direct calls of validate_mla
SpecMla == InitMla /\ [][NextMla]_vars

(***************************************************************************)
(* Properties.  Closed forms of the two patterns, written from the         *)
(* positions of the first "(" and the first "." instead of by matching.    *)
(***************************************************************************)
Done == pc = "done"

\* s[i .. i+5] is "(dddd)"
YearAt(s, i) ==
    /\ i + 5 <= Len(s)
    /\ s[i] = "("
    /\ \A j \in (i + 1) .. (i + 4) : s[j] \in Digits
    /\ s[i + 5] = ")"

\* the first "(" of s is at i > 1 and opens "(dddd)." with a character after it
ApaShapeAt(s, i) ==
    /\ i >= 2
    /\ \A j \in 1 .. (i - 1) : s[j] # "("
    /\ YearAt(s, i)
    /\ i + 7 <= Len(s)
    /\ s[i + 6] = "."

\* the shape as the specification words it: any character may follow the period
ApaShapeAnyTail(s) == \E i \in 1 .. Len(s) : ApaShapeAt(s, i)

\* the shape the pattern accepts: the character after the period is no newline
ApaConforms(s) == \E i \in 1 .. Len(s) : ApaShapeAt(s, i) /\ s[i + 7] # "\n"

\* the first "." of s is at i > 1 and a character follows it
MlaShapeAt(s, i) ==
    /\ i >= 2
    /\ i + 1 <= Len(s)
    /\ s[i] = "."
    /\ \A j \in 1 .. (i - 1) : s[j] # "."

MlaShapeAnyTail(s) == \E i \in 1 .. Len(s) : MlaShapeAt(s, i)

MlaConforms(s) == \E i \in 1 .. Len(s) : MlaShapeAt(s, i) /\ s[i + 1] # "\n"

\* the bodies json.dumps produces for the validation results
BodyConforms == "{\"formatCorrect\": true, \"hasRequiredFields\": true, \"issues\": []}"

BodyNoMatch(style) ==
    "{\"formatCorrect\": false, \"hasRequiredFields\": false, \"issues\": [\"Does not match "
    \o style \o " format\"]}"

BodyUnsupported == "{\"formatCorrect\": false, \"issues\": [\"Unsupported format\"]}"

ValidationBodies ==
    {BodyConforms, BodyNoMatch("APA"), BodyNoMatch("MLA"), BodyUnsupported}

\* the bodies json.dumps produces for the faults a request can cause
ErrorBodies ==
    { "{\"error\": \"'NoneType' object has no attribute 'get'\"}",
      "{\"error\": \"'list' object has no attribute 'get'\"}",
      "{\"error\": \"'int' object has no attribute 'get'\"}",
      "{\"error\": \"'str' object has no attribute 'get'\"}",
      "{\"error\": \"'NoneType' object has no attribute 'lower'\"}",
      "{\"error\": \"'int' object has no attribute 'lower'\"}",
      "{\"error\": \"expected string or bytes-like object, got 'NoneType'\"}",
      "{\"error\": \"expected string or bytes-like object, got 'int'\"}" }

\* the request of a lambda_handler call and its keys
Event == args[1]

HasKey(key) == Event.t = "dict" /\ \E p \in Event.d : p[1] = key

KeyValue(key) == (CHOOSE p \in Event.d : p[1] = key)[2]

IsStrKey(key) == HasKey(key) /\ KeyValue(key).t = "str"

\* the style a request names, read without lower-casing: "apa", "mla" or "other"
StyleOf(f) ==
    IF f \in CaseVariants(s_apa) THEN "apa"
    ELSE IF f \in CaseVariants(s_mla) THEN "mla"
    ELSE "other"

RequestStyle == IF HasKey("format") THEN StyleOf(KeyValue("format").v) ELSE "apa"

RequestCitation == IF HasKey("citation") THEN KeyValue("citation").v ELSE <<>>

\* the body a well-formed request of a given style and citation is answered with
ExpectedBody(style, c) ==
    CASE style = "apa" -> IF ApaConforms(c) THEN BodyConforms ELSE BodyNoMatch("APA")
      [] style = "mla" -> IF MlaConforms(c) THEN BodyConforms ELSE BodyNoMatch("MLA")
      [] OTHER -> BodyUnsupported

(***************************************************************************)
(* C1 (SpecCitation): for every citation string and every style identifier *)
(* other than apa and mla, validate_citation returns exactly the record    *)
(* {formatCorrect: false, hasRequiredFields: false,                        *)
(*  issues: ["Unsupported format"]}, all three fields present.             *)
(***************************************************************************)
C1_UnsupportedHasThreeFields ==
    (Done /\ args[2] \notin {PyStr(s_apa), PyStr(s_mla)})
        => ret = Return([formatCorrect |-> FALSE,
                         hasRequiredFields |-> FALSE,
                         issues |-> <<"Unsupported format">>])

(***************************************************************************)
(* C2 (SpecCitation): in every result validate_citation returns, for any   *)
(* citation string and any style, issues is empty if and only if           *)
(* formatCorrect is true.                                                  *)
(***************************************************************************)
C2_IssuesEmptyIffFormatCorrect ==
    Done => /\ ret.kind = "return"
            /\ (ret.value.issues = <<>>) <=> ret.value.formatCorrect

C2_Witness ==
    /\ Done
    /\ args[2] = PyStr(s_mla)
    /\ ret.value.formatCorrect
    /\ ret.value.issues = <<>>

(***************************************************************************)
(* C3 (Spec): a request whose citation is a string and whose format is a   *)
(* string never raises and never gets status 500: lambda_handler returns   *)
(* status 200 with the serialized result of the validation as body, also   *)
(* for the empty citation, a citation that does not conform (formatCorrect *)
(* false in the body) and an unrecognized style.                           *)
(***************************************************************************)
C3_WellTypedRequestIs200 ==
    (Done /\ IsStrKey("citation") /\ IsStrKey("format"))
        => ret = Return([statusCode |-> 200,
                         body |-> ExpectedBody(RequestStyle, RequestCitation)])

C3_Witness ==
    /\ Done
    /\ IsStrKey("citation") /\ IsStrKey("format")
    /\ RequestCitation = <<>>
    /\ RequestStyle = "other"
    /\ ret.value.statusCode = 200

(***************************************************************************)
(* C4 (Spec): style matching is case-insensitive: a request whose format   *)
(* is any upper/lower/mixed-case spelling of apa or mla is answered        *)
(* exactly as the same request with the lower-case spelling, and never     *)
(* with "Unsupported format".                                              *)
(***************************************************************************)
LowerCaseRequest ==
    PyDict({p \in Event.d : p[1] # "format"}
           \cup {<<"format", PyStr(IF RequestStyle = "apa" THEN s_apa ELSE s_mla)>>})

C4_StyleCaseInsensitive ==
    (Done /\ IsStrKey("format") /\ RequestStyle # "other")
        => /\ ret = lambda_handler(LowerCaseRequest)
           /\ ret.kind = "return" => ret.value.body # BodyUnsupported

C4_Witness ==
    /\ Done
    /\ IsStrKey("format")
    /\ KeyValue("format").v = <<"A", "p", "A">>
    /\ ret.kind = "return"
    /\ ret.value.body = BodyConforms

(***************************************************************************)
(* C5 (SpecApa): for style apa, formatCorrect is true exactly when the     *)
(* citation is one or more characters other than "(", then "(", exactly    *)
(* four digits, ")", ".", then one or more characters of any kind.         *)
(***************************************************************************)
C5_ApaAnyCharacterAfterPeriod ==
    Done => (ret.value.formatCorrect <=> ApaShapeAnyTail(args[1].v))

(***************************************************************************)
(* C6 (SpecMla): for style mla, formatCorrect is true exactly when the     *)
(* citation has one or more non-period characters, then a period, then at  *)
(* least one character of any kind.                                        *)
(***************************************************************************)
C6_MlaAnyCharacterAfterPeriod ==
    Done => (ret.value.formatCorrect <=> MlaShapeAnyTail(args[1].v))

(***************************************************************************)
(* C7 (SpecCitation): for apa and mla, a citation that fails the style's   *)
(* pattern (the empty citation included) yields formatCorrect false,       *)
(* hasRequiredFields false and the single issue "Does not match APA        *)
(* format" or "Does not match MLA format"; a citation that satisfies it    *)
(* yields true, true and no issue.  So hasRequiredFields equals            *)
(* formatCorrect.                                                          *)
(***************************************************************************)
C7_RecognizedStyleResult ==
    (Done /\ args[2] \in {PyStr(s_apa), PyStr(s_mla)})
        => LET c == args[1].v
               apa == args[2] = PyStr(s_apa)
               ok == IF apa THEN ApaConforms(c) ELSE MlaConforms(c)
           IN  /\ ret = Return([formatCorrect |-> ok,
                                hasRequiredFields |-> ok,
                                issues |-> IF ok THEN <<>>
                                           ELSE IF apa
                                                THEN <<"Does not match APA format">>
                                                ELSE <<"Does not match MLA format">>])
               /\ c = <<>> => ~ret.value.formatCorrect

C7_Witness ==
    /\ Done
    /\ args[2] = PyStr(s_apa)
    /\ args[1].v = <<>>
    /\ ~ret.value.hasRequiredFields
    /\ ret.value.issues = <<"Does not match APA format">>

(***************************************************************************)
(* C8 (Spec): an absent citation key is read as the empty string and an    *)
(* absent format key as "apa": a request with neither key returns 200 with *)
(* the APA non-conformance result, a request with only a citation is       *)
(* validated under the APA rule, and a request with only format "mla"      *)
(* validates the empty citation under the MLA rule.                        *)
(***************************************************************************)
C8_AbsentKeysDefault ==
    (Done /\ Event.t = "dict")
        => /\ Event.d = {}
                => ret = Return([statusCode |-> 200, body |-> BodyNoMatch("APA")])
           /\ (IsStrKey("citation") /\ ~HasKey("format"))
                => ret = Return([statusCode |-> 200,
                                 body |-> ExpectedBody("apa", RequestCitation)])
           /\ Event.d = {<<"format", PyStr(s_mla)>>}
                => ret = Return([statusCode |-> 200, body |-> BodyNoMatch("MLA")])

C8_Witness ==
    /\ Done
    /\ Event = PyDict({})
    /\ ret.value.statusCode = 200

(***************************************************************************)
(* C9 (Spec): lambda_handler lets no exception escape: every request,      *)
(* malformed ones included, gets status 200 with a validation result as    *)
(* body or status 500 with the error's description as body, and 500 only   *)
(* when a fault was raised: the payload is no mapping, the format is no    *)
(* string, or the citation handed to a pattern is no string.               *)
(***************************************************************************)
Malformed ==
    \/ Event.t # "dict"
    \/ HasKey("format") /\ ~IsStrKey("format")
    \/ HasKey("citation") /\ ~IsStrKey("citation") /\ RequestStyle # "other"

C9_NoExceptionEscapes ==
    Done => /\ ret.kind = "return"
            /\ ret.value.statusCode \in {200, 500}
            /\ ret.value.statusCode = 500 <=> Malformed
            /\ ret.value.statusCode = 200 => ret.value.body \in ValidationBodies
            /\ ret.value.statusCode = 500 => ret.value.body \in ErrorBodies

C9_Witness ==
    /\ Done
    /\ IsStrKey("format")
    /\ RequestStyle = "mla"
    /\ HasKey("citation") /\ KeyValue("citation") = PyInt(5)
    /\ ret.value.statusCode = 500

(***************************************************************************)
(* C10 (SpecApa), as the specification states it: the first parenthesized  *)
(* 4-digit occurrence decides, so a citation with a parenthesized          *)
(* non-4-digit token before a well-formed "(dddd)." (preceded and followed *)
(* by a character) is formatCorrect, and so is one whose year slot is      *)
(* filled by a spurious earlier "(dddd).".                                 *)
(***************************************************************************)
\* s[p .. r] is a parenthesized token that is not "(dddd)"
OtherTokenAt(s, p, r) ==
    /\ s[p] = "("
    /\ s[r] = ")"
    /\ \A j \in (p + 1) .. (r - 1) : s[j] \notin {"(", ")"}
    /\ ~YearAt(s, p)

\* "(dddd)." at q, after a character and before a character
WellFormedYearAt(s, q) ==
    /\ q >= 2
    /\ YearAt(s, q)
    /\ q + 7 <= Len(s)
    /\ s[q + 6] = "."

\* a parenthesized non-4-digit token precedes the first "(dddd)", a well-formed one
TokenBeforeYear(s) ==
    \E q \in 1 .. Len(s) :
        /\ WellFormedYearAt(s, q)
        /\ \A i \in 1 .. (q - 1) : ~YearAt(s, i)
        /\ \E p \in 1 .. (q - 1) : \E r \in (p + 1) .. (q - 1) : OtherTokenAt(s, p, r)

\* a "(dddd)." accepted by the pattern is followed later by a well-formed one
SpuriousYearBeforeYear(s) ==
    \E i \in 1 .. Len(s) :
        /\ ApaShapeAt(s, i)
        /\ s[i + 7] # "\n"
        /\ \E q \in (i + 6) .. Len(s) : WellFormedYearAt(s, q)

C10_FirstFourDigitTokenDecides ==
    Done => /\ TokenBeforeYear(args[1].v) => ret.value.formatCorrect
            /\ SpuriousYearBeforeYear(args[1].v) => ret.value.formatCorrect

(***************************************************************************)
(* C10 as amended: the first "(" of the citation decides.  formatCorrect   *)
(* is true exactly when the first "(" has a character before it and opens  *)
(* "(dddd)." followed by a character other than a newline; so a citation   *)
(* with a parenthesized non-4-digit token before its well-formed "(dddd)." *)
(* is not formatCorrect, and one whose first "(" opens a spurious          *)
(* "(dddd)." before the true year is.                                      *)
(***************************************************************************)
C10_FirstParenthesisDecides ==
    Done => /\ ret.value.formatCorrect <=> ApaConforms(args[1].v)
            /\ TokenBeforeYear(args[1].v) => ~ret.value.formatCorrect
            /\ SpuriousYearBeforeYear(args[1].v) => ret.value.formatCorrect

C10_Witness ==
    /\ Done
    /\ TokenBeforeYear(args[1].v)
    /\ ~ret.value.formatCorrect

====
